---- MODULE Spec2Model ----
(***************************************************************************)
(* Visionary: the Google export handler (api/save-to-google.ts), the OAuth *)
(* callback and status handlers (api/auth/google/callback.ts, status.ts)   *)
(* and the client application state (the App component).                   *)
(*                                                                         *)
(* Strings that are converted (JSON text, cookie values) are sequences of  *)
(* symbols: one-character strings, and the word "access_token", which      *)
(* consists of unreserved characters only and is never split.              *)
(***************************************************************************)
EXTENDS Integers, Sequences, FiniteSets, TLC

\* Number of export invocations one server process serves in a run, and of
\* Drive or Sheets calls that fail in it.
MaxInv == 2
MaxFail == 1

Inv == 1..MaxInv

----------------------------------------------------------------------------
(* The state: the server process and the cloud, the browser's cookies and  *)
(* the OAuth flow, the App component                                       *)

VARIABLES
    inv,           \* per invocation: position, request, locals, calls, response
    credentials,   \* oauth2Client.credentials, one per process
    files,         \* Drive: uploaded files, index = file id, value = owner
    spreadsheets,  \* Drive/Sheets: index = spreadsheet id, [owner, rows]
    failures       \* Drive or Sheets calls that have failed so far

exportVars == <<inv, credentials, files, spreadsheets, failures>>

VARIABLES
    jar,                    \* the browser's cookies for the site
    callback,               \* the callback request in progress
    statusReq,              \* the last status request and its answer
    message,                \* an OAUTH_AUTH_SUCCESS message on its way to the opener
    isGoogleAuthenticated   \* the App's flag

authVars == <<jar, callback, statusReq, message, isGoogleAuthenticated>>

VARIABLES
    phase,          \* "boot" before the effects of the first render, then "running"
    storage,        \* localStorage['visionary_history']
    console,        \* what console.error has logged
    prompt, aspectRatio, isGenerating, currentImage, history, error,
    request,        \* the generation request in flight: <<>> or <<[prompt, aspectRatio]>>
    reply,          \* its answer once it has arrived: <<>> or <<reply>>
    generated,      \* successful generations so far
    deleted         \* deletions so far

clientVars ==
    <<phase, storage, console, prompt, aspectRatio, isGenerating, currentImage,
      history, error, request, reply, generated, deleted>>

vars == <<exportVars, authVars, clientVars>>

----------------------------------------------------------------------------
(* Token sets, JSON text and the cookie                                    *)

\* Token sets the OAuth provider hands out; the second holds a character
\* that encodeURIComponent escapes.
TokenSets == { [access_token |-> <<"a">>], [access_token |-> <<"b", "/">>] }

\* A fresh OAuth2 client holds no credentials (credentials = {}).
NoCredentials == [access_token |-> <<>>]

\* JSON.stringify of a token set.
JSONStringify(t) ==
    <<"{", "\"", "access_token", "\"", ":", "\"">> \o t.access_token \o <<"\"", "}">>

\* JSON.parse succeeds exactly on the texts JSON.stringify produces here.
JSONParses(s) == \E t \in TokenSets : JSONStringify(t) = s

JSONParse(s) == CHOOSE t \in TokenSets : JSONStringify(t) = s

\* A cookie value that is not JSON.
MalformedText == <<"a", "b">>

\* req.cookies of an export request: no google_tokens cookie, an empty one,
\* one that is not JSON, or the JSON text of a token set.
CookieName == "google_tokens"

WithCookie(v) == [n \in {CookieName} |-> v]

NoCookies == [n \in {} |-> <<>>]

ExportCookies ==
    {NoCookies, WithCookie(<<>>), WithCookie(MalformedText)}
        \cup { WithCookie(JSONStringify(t)) : t \in TokenSets }

\* req.body of an export request: absent, or an object whose imageData is a
\* data URI, a string without a comma, or missing.
NoBody == [kind |-> "none", imageData |-> "undefined", prompt |-> "", aspectRatio |-> ""]

Body(d) == [kind |-> "object", imageData |-> d, prompt |-> "p", aspectRatio |-> "1:1"]

Bodies == { NoBody } \cup { Body(d) : d \in {"datauri", "nocomma", "undefined"} }

\* The export requests served: every cookie with a well-formed body, and
\* every body with the cookie of a token set.
Requests ==
    { [cookies |-> c, body |-> Body("datauri")] : c \in ExportCookies }
        \cup { [cookies |-> WithCookie(JSONStringify([access_token |-> <<"a">>])), body |-> b] :
                  b \in Bodies }

----------------------------------------------------------------------------
(* Drive and Sheets                                                        *)

HeaderRow == <<"Timestamp", "Prompt", "Aspect Ratio", "Drive Link">>

\* webViewLink of the uploaded file with the given id.
LinkOf(id) == "link" \o ToString(id)

\* new Date().toISOString() of the append made by invocation i.
StampOf(i) == "time" \o ToString(i)

\* Messages a failing step may carry; the empty one makes the handler fall
\* back to its generic text.
StepMessages == {"", "step failed"}

FallbackMessage == "Failed to save to Google"

NotAuthenticatedMessage == "Not authenticated with Google"

\* The account a call is made for is the account of the credentials it is
\* authorised with.
AccountOf(t) == t.access_token


NoResponse == [status |-> 0, success |-> FALSE, fileLink |-> "", error |-> ""]

IdleInv ==
    [pc |-> "idle", cookies |-> NoCookies, body |-> NoBody,
     tokens |-> NoCredentials, auth |-> NoCredentials,
     fileLink |-> "", spreadsheetId |-> 0,
     caught |-> "", calls |-> <<>>, response |-> NoResponse, alone |-> TRUE]

ExportInit ==
    /\ inv = [i \in Inv |-> IdleInv]
    /\ credentials = NoCredentials
    /\ files = <<>>
    /\ spreadsheets = <<>>
    /\ failures = 0

----------------------------------------------------------------------------
(* saveToGoogleHandler: one action per stretch of code between two awaits  *)

Awaiting == {"upload", "list", "create", "header", "append"}

Finished == {"done", "crashed"}

\* res.status(s).json({error: m})
RespondError(r, s, m) ==
    [r EXCEPT !.pc = "done",
              !.response = [status |-> s, success |-> FALSE, fileLink |-> "", error |-> m]]

\* res.json({success: true, fileLink})
RespondSuccess(r) ==
    [r EXCEPT !.pc = "done",
              !.response = [status |-> 200, success |-> TRUE, fileLink |-> r.fileLink, error |-> ""]]

\* A catch block that passes error.message on as it is.
CatchErrorNoFallback(r, m) == RespondError([r EXCEPT !.caught = m], 500, m)

\* The catch block: error.message || "Failed to save to Google".
CatchError(r, m) ==
    RespondError([r EXCEPT !.caught = m], 500, IF m = "" THEN FallbackMessage ELSE m)

\* A Drive or Sheets call started through the shared client: the request is
\* authorised with the credentials the client holds when the call is made.
IssueCall(r, op, creds) ==
    [r EXCEPT !.pc = op,
              !.auth = creds,
              !.calls = Append(@, [op |-> op, auth |-> creds])]

\* A check that lets an empty cookie value through.
HasTokensDefinedOnly(c) == CookieName \in DOMAIN c

\* !tokensStr is false: the cookie is there and is not the empty string.
HasTokens(c) == CookieName \in DOMAIN c /\ c[CookieName] # <<>>

\* The request arrives; the handler runs up to its first await.  alone is
\* not a variable of the code: it records whether every invocation that
\* began before this one had ended when this one began.
Receive(i, c, b) ==
    /\ inv[i].pc = "idle"
    /\ \A j \in Inv : j < i => inv[j].pc # "idle"
    /\ LET r0 == [inv[i] EXCEPT !.cookies = c, !.body = b,
                                 !.alone = \A j \in Inv : inv[j].pc \in Finished \cup {"idle"}]
       IN  IF ~HasTokens(c)
           THEN /\ inv' = [inv EXCEPT ![i] = RespondError(r0, 401, NotAuthenticatedMessage)]
                /\ UNCHANGED credentials
           ELSE IF b.kind = "none" \/ ~JSONParses(c[CookieName])
           THEN \* the destructuring or JSON.parse throws before the try block
                /\ inv' = [inv EXCEPT ![i] = [r0 EXCEPT !.pc = "crashed"]]
                /\ UNCHANGED credentials
           ELSE LET t == JSONParse(c[CookieName])
                    r1 == [r0 EXCEPT !.tokens = t]
                IN  /\ credentials' = t
                    /\ inv' = [inv EXCEPT ![i] =
                                 IF b.imageData = "datauri"
                                 THEN IssueCall(r1, "upload", t)
                                 ELSE CatchError(r1, "TypeError")]
    /\ UNCHANGED <<files, spreadsheets, failures>>
    /\ UNCHANGED <<authVars, clientVars>>

\* drive.files.create resolves; the handler goes on to drive.files.list.
UploadOk(i) ==
    /\ inv[i].pc = "upload"
    /\ files' = Append(files, AccountOf(inv[i].auth))
    /\ inv' = [inv EXCEPT ![i] =
                 IssueCall([@ EXCEPT !.fileLink = LinkOf(Len(files'))], "list", credentials)]
    /\ UNCHANGED <<credentials, spreadsheets, failures>>
    /\ UNCHANGED <<authVars, clientVars>>

\* A query that matches no file.
ListedNothing(t) == {}

\* The spreadsheets named 'Visionary AI Generations' the call's account sees.
Listed(t) == {s \in DOMAIN spreadsheets : spreadsheets[s].owner = AccountOf(t)}

\* drive.files.list resolves with at least one file; files[0] is whichever
\* the service lists first.
ListFound(i) ==
    /\ inv[i].pc = "list"
    /\ \E s \in Listed(inv[i].auth) :
          inv' = [inv EXCEPT ![i] =
                    IssueCall([@ EXCEPT !.spreadsheetId = s], "append", credentials)]
    /\ UNCHANGED <<credentials, files, spreadsheets, failures>>
    /\ UNCHANGED <<authVars, clientVars>>

\* drive.files.list resolves with no file.
ListEmpty(i) ==
    /\ inv[i].pc = "list"
    /\ Listed(inv[i].auth) = {}
    /\ inv' = [inv EXCEPT ![i] = IssueCall(@, "create", credentials)]
    /\ UNCHANGED <<credentials, files, spreadsheets, failures>>
    /\ UNCHANGED <<authVars, clientVars>>

\* The id of the first spreadsheet there is.
CreatedIdFirst(ss) == 1

\* createResponse.data.spreadsheetId: the id of the spreadsheet just created.
CreatedId(ss) == Len(ss)

\* sheets.spreadsheets.create resolves.
CreateOk(i) ==
    /\ inv[i].pc = "create"
    /\ spreadsheets' = Append(spreadsheets, [owner |-> AccountOf(inv[i].auth), rows |-> <<>>])
    /\ inv' = [inv EXCEPT ![i] =
                 IssueCall([@ EXCEPT !.spreadsheetId = CreatedId(spreadsheets')], "header", credentials)]
    /\ UNCHANGED <<credentials, files, failures>>
    /\ UNCHANGED <<authVars, clientVars>>

\* values.update of range A1:D1 writes row 1, whatever it held.
WriteRow1(rows, row) == IF rows = <<>> THEN <<row>> ELSE [rows EXCEPT ![1] = row]

\* values.append adds the row after the last row of the sheet.
AppendRow(rows, row) == Append(rows, row)

\* A call on a spreadsheet succeeds only for the account that owns it.
MayAccess(r) == spreadsheets[r.spreadsheetId].owner = AccountOf(r.auth)

\* sheets.spreadsheets.values.update (the header) resolves.
HeaderOk(i) ==
    /\ inv[i].pc = "header"
    /\ MayAccess(inv[i])
    /\ spreadsheets' = [spreadsheets EXCEPT ![inv[i].spreadsheetId].rows = WriteRow1(@, HeaderRow)]
    /\ inv' = [inv EXCEPT ![i] = IssueCall(@, "append", credentials)]
    /\ UNCHANGED <<credentials, files, failures>>
    /\ UNCHANGED <<authVars, clientVars>>

DataRow(r, i) == <<StampOf(i), r.body.prompt, r.body.aspectRatio, r.fileLink>>

\* sheets.spreadsheets.values.append resolves; the handler answers 200.
AppendOk(i) ==
    /\ inv[i].pc = "append"
    /\ MayAccess(inv[i])
    /\ spreadsheets' = [spreadsheets EXCEPT
                          ![inv[i].spreadsheetId].rows = AppendRow(@, DataRow(inv[i], i))]
    /\ inv' = [inv EXCEPT ![i] = RespondSuccess(@)]
    /\ UNCHANGED <<credentials, files, failures>>
    /\ UNCHANGED <<authVars, clientVars>>

\* A call on a spreadsheet of another account is refused; the catch block
\* answers 500.
AccessDenied(i) ==
    /\ inv[i].pc \in {"header", "append"}
    /\ ~MayAccess(inv[i])
    /\ inv' = [inv EXCEPT ![i] = CatchError(@, "The caller does not have permission")]
    /\ UNCHANGED <<credentials, files, spreadsheets, failures>>
    /\ UNCHANGED <<authVars, clientVars>>

\* The awaited call rejects with message m (the network, a quota, an
\* expired token); the catch block answers 500.
StepFails(i, m) ==
    /\ inv[i].pc \in Awaiting
    /\ failures < MaxFail
    /\ failures' = failures + 1
    /\ inv' = [inv EXCEPT ![i] = CatchError(@, m)]
    /\ UNCHANGED <<credentials, files, spreadsheets>>
    /\ UNCHANGED <<authVars, clientVars>>

\* The handler serving the given requests, with the given messages for the
\* calls that fail.
ExportNext(requests, messages) ==
    \/ \E i \in Inv, q \in requests : Receive(i, q.cookies, q.body)
    \/ \E i \in Inv : UploadOk(i)
    \/ \E i \in Inv : ListFound(i)
    \/ \E i \in Inv : ListEmpty(i)
    \/ \E i \in Inv : CreateOk(i)
    \/ \E i \in Inv : HeaderOk(i)
    \/ \E i \in Inv : AppendOk(i)
    \/ \E i \in Inv : AccessDenied(i)
    \/ \E i \in Inv, m \in messages : StepFails(i, m)


----------------------------------------------------------------------------
(* Properties of the export handler                                        *)

Started(i) == inv[i].pc # "idle"

Succeeded(i) == inv[i].pc = "done" /\ inv[i].response.status = 200

Ops(i) == [k \in DOMAIN inv[i].calls |-> inv[i].calls[k].op]

\* C1: an export request whose google_tokens cookie is absent or empty is
\* answered 401 with an error body and makes no Drive or Sheets call; every
\* call belongs to an invocation whose cookie was non-empty.
C1_NoCookieNoCalls ==
    \A i \in Inv :
        /\ (Started(i) /\ ~(CookieName \in DOMAIN inv[i].cookies /\ inv[i].cookies[CookieName] # <<>>))
              => /\ inv[i].pc = "done"
                 /\ inv[i].response.status = 401
                 /\ inv[i].response.error # ""
                 /\ ~inv[i].response.success
                 /\ inv[i].calls = <<>>
        /\ inv[i].calls # <<>>
              => /\ CookieName \in DOMAIN inv[i].cookies
                 /\ inv[i].cookies[CookieName] # <<>>

\* An invocation with an empty cookie has been answered 401 while another,
\* with a token set in its cookie, has uploaded its file.
C1_Witness ==
    /\ \E i \in Inv : inv[i].cookies = WithCookie(<<>>) /\ inv[i].response.status = 401
    /\ \E i \in Inv : Len(inv[i].calls) >= 2
    /\ files # <<>>

\* C3: export invocations are independent: every Drive and Sheets call of
\* an invocation is authorised with the token set of that invocation's own
\* cookie, also when two invocations interleave at their await points.
C3_CallsUseOwnTokens ==
    \A i \in Inv : \A k \in DOMAIN inv[i].calls : inv[i].calls[k].auth = inv[i].tokens

\* C4: every export request that has ended has been answered 200 with
\* {success: true, fileLink}, 401 with {error} (no session cookie) or 500
\* with {error}; no failure escapes the handler.
C4_EveryRequestAnswered ==
    \A i \in Inv :
        inv[i].pc \in Finished =>
            \/ /\ inv[i].response.status = 200
               /\ inv[i].response.success
               /\ inv[i].response.fileLink # ""
            \/ /\ inv[i].response.status = 401
               /\ inv[i].response.error # ""
               /\ ~HasTokens(inv[i].cookies)
            \/ /\ inv[i].response.status = 500
               /\ inv[i].response.error # ""
               /\ HasTokens(inv[i].cookies)

\* The invocations that have begun ran one after the other, in the order
\* of their numbers.
Sequential == \A i \in Inv : inv[i].alone

SameAccount(i, j) == AccountOf(inv[i].tokens) = AccountOf(inv[j].tokens)

\* No earlier invocation of the same account got as far as creating a
\* spreadsheet: invocation i began with none in its account.
BeganWithNone(i) ==
    \A j \in 1..(i - 1) :
        SameAccount(i, j) => \A k \in DOMAIN inv[j].calls : inv[j].calls[k].op # "header"

Occurrences(rows, row) == Cardinality({k \in DOMAIN rows : rows[k] = row})

\* C2: with no spreadsheet to begin with, a successful export creates exactly
\* one spreadsheet, writes the header row before appending and appends one
\* data row; a successful export of the same account that begins after it
\* has ended creates none, uses the same spreadsheet id, writes no header
\* and appends exactly one further row.
C2_FindOrCreate ==
    Sequential =>
        \A i \in Inv :
            (Succeeded(i) /\ BeganWithNone(i)) =>
                LET id == inv[i].spreadsheetId
                    rows == spreadsheets[id].rows
                IN  /\ Ops(i) = <<"upload", "list", "create", "header", "append">>
                    /\ Listed(inv[i].tokens) = {id}
                    /\ rows[1] = HeaderRow
                    /\ rows[2] = DataRow(inv[i], i)
                    /\ Occurrences(rows, DataRow(inv[i], i)) = 1
                    /\ Occurrences(rows, HeaderRow) = 1
                    /\ \A j \in Inv :
                          (Succeeded(j) /\ i < j /\ SameAccount(i, j)) =>
                              /\ Ops(j) = <<"upload", "list", "append">>
                              /\ inv[j].spreadsheetId = id
                              /\ Occurrences(rows, DataRow(inv[j], j)) = 1
                              /\ \E k \in 3..Len(rows) : rows[k] = DataRow(inv[j], j)

\* Two exports of one account have succeeded, the second begun after the
\* first had ended.
C2_Witness ==
    /\ Sequential
    /\ \E i, j \in Inv :
          /\ Succeeded(i) /\ BeganWithNone(i)
          /\ Succeeded(j) /\ i < j /\ SameAccount(i, j)
          /\ Len(spreadsheets[inv[i].spreadsheetId].rows) = 3

\* The calls of an invocation in the order it made them.
CallOrders ==
    { <<"upload", "list", "create", "header", "append">>, <<"upload", "list", "append">> }

IsPrefix(p, q) == Len(p) <= Len(q) /\ \A k \in DOMAIN p : p[k] = q[k]

\* What holds of the calls and the response of every invocation.
StepsInOrder(exact) ==
    \A i \in Inv :
        /\ \E q \in CallOrders : IsPrefix(Ops(i), q)
        /\ inv[i].pc \in Awaiting =>
              (inv[i].calls # <<>> /\ inv[i].calls[Len(inv[i].calls)].op = inv[i].pc)
        /\ Succeeded(i) => Ops(i) \in CallOrders
        /\ (inv[i].pc = "done" /\ inv[i].calls # <<>> /\ ~Succeeded(i)) =>
              /\ inv[i].response.status = 500
              /\ IF exact \/ inv[i].caught # ""
                 THEN inv[i].response.error = inv[i].caught
                 ELSE inv[i].response.error = FallbackMessage
        \* the file uploaded by an invocation that got past the upload stays
        /\ Len(inv[i].calls) >= 2 =>
              \E f \in DOMAIN files : LinkOf(f) = inv[i].fileLink
        \* so does the spreadsheet it created
        /\ Len(inv[i].calls) >= 4 /\ inv[i].calls[3].op = "create" =>
              inv[i].spreadsheetId \in DOMAIN spreadsheets

\* What holds of every step of an invocation.
StepsAbort ==
    \A i \in Inv :
        \* a step begins when the previous call has succeeded
        /\ (inv'[i].calls # inv[i].calls) =>
              /\ Len(inv'[i].calls) = Len(inv[i].calls) + 1
              /\ inv'[i].pc \in Awaiting
              /\ inv[i].pc = "idle" \/ (inv[i].pc \in Awaiting /\ <<files', spreadsheets'>> # <<files, spreadsheets>>)
                    \/ inv[i].pc = "list"
        \* create only on an empty list, append straight away only on a found one
        /\ (inv[i].pc = "list" /\ inv'[i].pc = "create") => Listed(inv[i].auth) = {}
        /\ (inv[i].pc = "list" /\ inv'[i].pc = "append") =>
              inv'[i].spreadsheetId \in Listed(inv[i].auth)
        \* a failing step ends the invocation and undoes nothing
        /\ (inv[i].pc \in Awaiting /\ inv'[i].response.status = 500) =>
              /\ inv'[i].pc = "done"
              /\ inv'[i].calls = inv[i].calls
              /\ files' = files
              /\ spreadsheets' = spreadsheets
        \* an invocation that has ended does nothing more
        /\ inv[i].pc \in Finished => inv'[i] = inv[i]
        \* nothing is ever removed
        /\ IsPrefix(files, files')
        /\ Len(spreadsheets') >= Len(spreadsheets)

\* C5 as stated: the calls are made in the order upload, list, (create,
\* header only on an empty list), append, each after the previous one
\* succeeded; a failing step ends the invocation with a 500 that carries
\* the step's message, and what was done before stays.
C5_StepMessagePassedOn == [](StepsInOrder(TRUE)) /\ [][StepsAbort]_exportVars

\* C5 amended: as above, and the 500 carries the step's message, or
\* "Failed to save to Google" when the error has an empty message.
C5_StepsInOrderAbortNoRollback == [](StepsInOrder(FALSE)) /\ [][StepsAbort]_exportVars

\* The append of an invocation that created its spreadsheet failed with an
\* empty message: the file and the spreadsheet with its header are there.
C5_Witness ==
    \E i \in Inv :
        /\ inv[i].pc = "done"
        /\ inv[i].response.status = 500
        /\ inv[i].caught = ""
        /\ Ops(i) = <<"upload", "list", "create", "header", "append">>
        /\ spreadsheets[inv[i].spreadsheetId].rows = <<HeaderRow>>
        /\ files # <<>>

\* The data rows a sheet holds: its rows other than the header.
DataRowsOf(rows) == { rows[k] : k \in DOMAIN rows } \ { HeaderRow }

\* C11: under any interleaving of export invocations, a data row that is in
\* a sheet is in that sheet after every later step: no append and no header
\* write overwrites or removes it, the set of data rows only grows.
C11_DataRowsWriteOnce ==
    [][\A s \in DOMAIN spreadsheets :
          DataRowsOf(spreadsheets[s].rows) \subseteq DataRowsOf(spreadsheets'[s].rows)]_exportVars

\* Invocation i has created a spreadsheet: its create call has resolved.
Created(i) == Len(inv[i].calls) >= 4 /\ inv[i].calls[3].op = "create"

\* What holds in every state of the invocations that created a spreadsheet.
CreatedOwn ==
    /\ \A i, j \in Inv :
          (i # j /\ Created(i) /\ Created(j)) =>
             /\ inv[i].spreadsheetId # inv[j].spreadsheetId
             /\ {inv[i].spreadsheetId, inv[j].spreadsheetId} \subseteq DOMAIN spreadsheets
    /\ \A i \in Inv :
          (Created(i) /\ Succeeded(i)) =>
             \A s \in DOMAIN spreadsheets :
                 DataRow(inv[i], i) \in DataRowsOf(spreadsheets[s].rows) <=> s = inv[i].spreadsheetId

\* Every create call that resolves adds a spreadsheet, whatever there is.
EachCreates ==
    \A i \in Inv :
        (inv[i].pc = "create" /\ inv'[i].pc = "header") =>
            /\ Len(spreadsheets') = Len(spreadsheets) + 1
            /\ inv'[i].spreadsheetId \notin DOMAIN spreadsheets

\* C12: nothing excludes two export invocations from one another: of two
\* invocations whose list found no spreadsheet, each creates one, so two
\* spreadsheets of the name exist, and each appends its row to the
\* spreadsheet it created itself.
C12_BothCreate == [](CreatedOwn) /\ [][EachCreates]_exportVars

\* Two exports of one account have both created a spreadsheet and
\* succeeded: two spreadsheets, each with the header and its creator's row.
C12_Witness ==
    \E i, j \in Inv :
        /\ i # j /\ SameAccount(i, j)
        /\ Succeeded(i) /\ Succeeded(j) /\ Created(i) /\ Created(j)
        /\ Len(spreadsheets) = 2
        /\ spreadsheets[1].owner = spreadsheets[2].owner
        /\ spreadsheets[inv[i].spreadsheetId].rows = <<HeaderRow, DataRow(inv[i], i)>>
        /\ spreadsheets[inv[j].spreadsheetId].rows = <<HeaderRow, DataRow(inv[j], j)>>

----------------------------------------------------------------------------
(* The session cookie: callbackHandler, the browser, statusHandler         *)

\* encodeURIComponent leaves letters, digits and - _ . ! ~ * ' ( ) alone;
\* the escapes of the other characters used here.
Escapes ==
    [c \in {"{", "}", "\"", ":", "/", ";", "=", "%"} |->
        CASE c = "{"  -> <<"%", "7", "B">>
          [] c = "}"  -> <<"%", "7", "D">>
          [] c = "\"" -> <<"%", "2", "2">>
          [] c = ":"  -> <<"%", "3", "A">>
          [] c = "/"  -> <<"%", "2", "F">>
          [] c = ";"  -> <<"%", "3", "B">>
          [] c = "="  -> <<"%", "3", "D">>
          [] c = "%"  -> <<"%", "2", "5">>]

RECURSIVE EncodeURIComponent(_)
EncodeURIComponent(s) ==
    IF s = <<>> THEN <<>>
    ELSE (IF Head(s) \in DOMAIN Escapes THEN Escapes[Head(s)] ELSE <<Head(s)>>)
            \o EncodeURIComponent(Tail(s))

\* decodeURIComponent as cookie.parse uses it: a value with a broken escape
\* is handed on as it is.
WellEscaped(s) ==
    \A k \in DOMAIN s :
        s[k] = "%" => /\ k + 2 <= Len(s)
                      /\ \E c \in DOMAIN Escapes : Escapes[c] = SubSeq(s, k, k + 2)

RECURSIVE DecodeEscapes(_)
DecodeEscapes(s) ==
    IF s = <<>> THEN <<>>
    ELSE IF Head(s) = "%"
         THEN <<CHOOSE c \in DOMAIN Escapes : Escapes[c] = SubSeq(s, 1, 3)>>
                 \o DecodeEscapes(SubSeq(s, 4, Len(s)))
         ELSE <<Head(s)>> \o DecodeEscapes(Tail(s))

DecodeURIComponent(s) == IF WellEscaped(s) THEN DecodeEscapes(s) ELSE s

\* The part of s before the first occurrence of c (all of s if there is none).
RECURSIVE UpTo(_, _)
UpTo(s, c) ==
    IF s = <<>> \/ Head(s) = c THEN <<>> ELSE <<Head(s)>> \o UpTo(Tail(s), c)

CookieAttributes == <<";", " Path=/; HttpOnly; Secure; SameSite=None; Max-Age=2592000">>

\* The Set-Cookie header of the callback:
\* google_tokens=<encodeURIComponent(JSON.stringify(tokens))>; Path=/; ...
SetCookieHeader(t) ==
    <<CookieName, "=">> \o EncodeURIComponent(JSONStringify(t)) \o CookieAttributes

\* The browser stores name and value of a Set-Cookie header: the name ends
\* at the first "=", the value at the first ";".
StoreCookie(h) ==
    LET pair == UpTo(h, ";")
        name == UpTo(pair, "=")
    IN  [n \in {name[1]} |-> SubSeq(pair, Len(name) + 2, Len(pair))]

\* The Cookie header the browser sends: name=value, or nothing.
CookieHeader(j) ==
    IF DOMAIN j = {} THEN <<>>
    ELSE LET n == CHOOSE n \in DOMAIN j : TRUE IN <<n, "=">> \o j[n]

\* cookie-parser: req.cookies from the Cookie header, values decoded.
ParseCookies(h) ==
    IF h = <<>> THEN NoCookies
    ELSE LET pair == UpTo(h, ";")
             name == UpTo(pair, "=")
         IN  [n \in {name[1]} |->
                 DecodeURIComponent(SubSeq(pair, Len(name) + 2, Len(pair)))]

\* A handler that answers with the negation.
IsAuthenticatedNegated(c) == ~(CookieName \in DOMAIN c /\ c[CookieName] # <<>>)

\* statusHandler: !!req.cookies.google_tokens
IsAuthenticated(c) == CookieName \in DOMAIN c /\ c[CookieName] # <<>>

\* Authorization codes: the provider accepts those it issued a token set
\* for and rejects the others.
Codes == {"code1", "code2", "expired"}

TokensFor(code) ==
    CASE code = "code1" -> [access_token |-> <<"a">>]
      [] code = "code2" -> [access_token |-> <<"b", "/">>]


NoCallback == [pc |-> "idle", code |-> "", status |-> 0, setCookie |-> <<>>]

NoStatus == [pc |-> "idle", header |-> <<>>, cookies |-> NoCookies, isAuthenticated |-> FALSE]

AuthInit ==
    /\ jar = NoCookies
    /\ callback = NoCallback
    /\ statusReq = NoStatus
    /\ message = FALSE
    /\ isGoogleAuthenticated = FALSE

\* GET /api/auth/google/callback?code=...: the handler awaits getToken.
CallbackReceive(code) ==
    /\ callback.pc # "exchanging"
    /\ callback' = [pc |-> "exchanging", code |-> code, status |-> 0, setCookie |-> <<>>]
    /\ UNCHANGED <<jar, statusReq, message, isGoogleAuthenticated>>
    /\ UNCHANGED <<exportVars, clientVars>>

\* getToken resolves: the cookie is set, the page is sent and posts its
\* message to the opener; the browser stores the cookie.
CallbackExchanged ==
    /\ callback.pc = "exchanging"
    /\ callback.code \in {"code1", "code2"}
    /\ LET h == SetCookieHeader(TokensFor(callback.code))
       IN  /\ callback' = [callback EXCEPT !.pc = "done", !.status = 200, !.setCookie = h]
           /\ jar' = StoreCookie(h)
    /\ message' = TRUE
    /\ UNCHANGED <<statusReq, isGoogleAuthenticated>>
    /\ UNCHANGED <<exportVars, clientVars>>

\* getToken rejects: 500 "Authentication failed", no cookie.
CallbackRejected ==
    /\ callback.pc = "exchanging"
    /\ callback' = [callback EXCEPT !.pc = "done", !.status = 500]
    /\ UNCHANGED <<jar, statusReq, message, isGoogleAuthenticated>>
    /\ UNCHANGED <<exportVars, clientVars>>

\* handleMessage: the opener receives OAUTH_AUTH_SUCCESS.
HandleMessage ==
    /\ message
    /\ message' = FALSE
    /\ isGoogleAuthenticated' = TRUE
    /\ UNCHANGED <<jar, callback, statusReq>>
    /\ UNCHANGED <<exportVars, clientVars>>

\* GET /api/auth/google/status with the browser's cookies; the App stores
\* the answer.
StatusRequest ==
    /\ LET h == CookieHeader(jar)
           c == ParseCookies(h)
       IN  /\ statusReq' = [pc |-> "done", header |-> h, cookies |-> c,
                            isAuthenticated |-> IsAuthenticated(c)]
           /\ isGoogleAuthenticated' = IsAuthenticated(c)
    /\ UNCHANGED <<jar, callback, message>>
    /\ UNCHANGED <<exportVars, clientVars>>

\* The cookie reaches its Max-Age, or the user removes it.
CookieExpires ==
    /\ jar # NoCookies
    /\ jar' = NoCookies
    /\ UNCHANGED <<callback, statusReq, message, isGoogleAuthenticated>>
    /\ UNCHANGED <<exportVars, clientVars>>

AuthNext ==
    \/ \E code \in Codes : CallbackReceive(code)
    \/ CallbackExchanged
    \/ CallbackRejected
    \/ HandleMessage
    \/ StatusRequest
    \/ CookieExpires

\* C7: the cookie written by the callback for a token set, sent back on a
\* status request, is decoded to the JSON text of that token set and is
\* answered isAuthenticated: true; a status request without the cookie is
\* answered isAuthenticated: false.
C7_CookieRoundTrip ==
    /\ statusReq.pc = "done" =>
          /\ statusReq.header = <<>> => ~statusReq.isAuthenticated
          /\ \A t \in TokenSets :
                statusReq.header = CookieHeader(StoreCookie(SetCookieHeader(t))) =>
                    /\ statusReq.isAuthenticated
                    /\ statusReq.cookies = WithCookie(JSONStringify(t))
                    /\ JSONParse(statusReq.cookies[CookieName]) = t
    /\ callback.status = 200 =>
          /\ callback.setCookie = SetCookieHeader(TokensFor(callback.code))
          /\ jar # NoCookies =>
                \E t \in TokenSets : jar = StoreCookie(SetCookieHeader(t))

\* A status request carried the cookie the callback wrote for the token set
\* whose text holds an escaped "/", and was answered true.
C7_Witness ==
    /\ statusReq.pc = "done"
    /\ statusReq.isAuthenticated
    /\ statusReq.cookies = WithCookie(JSONStringify([access_token |-> <<"b", "/">>]))
    /\ callback.status = 200

----------------------------------------------------------------------------
(* The App component: prompt, aspect ratio, generation, history            *)

\* [newImage, ...prev].slice(0, 20)
HistoryCap == 20

\* Successful generations and deletions in one run.
MaxGen == 1
MaxDel == 1

AspectRatios == {"1:1", "3:4", "4:3", "9:16", "16:9"}

\* What the user types: nothing, a blank, a word.
Prompts == {<<>>, <<" ">>, <<"p">>}

RECURSIVE TrimStart(_)
TrimStart(s) == IF s # <<>> /\ Head(s) = " " THEN TrimStart(Tail(s)) ELSE s

RECURSIVE TrimEnd(_)
TrimEnd(s) == IF s # <<>> /\ s[Len(s)] = " " THEN TrimEnd(SubSeq(s, 1, Len(s) - 1)) ELSE s

\* prompt.trim()
Trim(s) == TrimEnd(TrimStart(s))

\* Math.random().toString(36): "0." and the base-36 digits of the fraction,
\* as many as the number has: one for 0.5, eleven or so for most numbers
\* (seven here, to keep the ids short).
RandomStrings ==
    { <<"0", ".", "i">>,
      <<"0", ".", "4", "f", "z", "y", "o", "m", "v">>,
      <<"0", ".", "k", "3", "x", "c", "q", "p", "q">> }

\* s.substring(7): the string without its first seven characters.
Substring7(s) == SubSeq(s, 8, Len(s))

\* What /api/openrouter-generate answers: 200 with {url, timestamp} (and the
\* prompt it was sent), or another status with an error text, possibly none.
Replies ==
    { [status |-> 200, url |-> "url1", timestamp |-> 1, error |-> ""],
      [status |-> 200, url |-> "url2", timestamp |-> 2, error |-> ""],
      [status |-> 500, url |-> "", timestamp |-> 0, error |-> "upstream error"],
      [status |-> 500, url |-> "", timestamp |-> 0, error |-> ""] }

GenerateFallback == "Failed to generate image via OpenRouter"

\* The history a previous session of the App left in local storage, newest
\* first; the newest entry has an id a later generation may draw again.
StoredEntry(k) ==
    [id |-> IF k = 1 THEN <<"m", "v">> ELSE <<"s", ToString(k)>>,
     url |-> "url0", prompt |-> <<"p">>, aspectRatio |-> "1:1", timestamp |-> 0]

StoredHistory(n) == [k \in 1..n |-> StoredEntry(k)]

\* JSON.stringify of the history: the brackets around the entries.
StringifyHistory(h) == <<"[">> \o h \o <<"]">>

IsHistoryText(s) == Len(s) >= 2 /\ s[1] = "[" /\ s[Len(s)] = "]"

ParseHistory(s) == SubSeq(s, 2, Len(s) - 1)

\* A stored value that JSON.parse rejects.
MalformedHistory == <<"[", "{">>

\* localStorage.getItem gives null for a key never written.
NoItem == <<>>

\* Lengths of the stored history: short ones, and those at the cap.
ShortLengths == {0, 1}

LongLengths == {HistoryCap - 1, HistoryCap}


ClientInit ==
    /\ phase = "boot"
    /\ storage \in {NoItem, MalformedHistory}
                     \cup { StringifyHistory(StoredHistory(n)) : n \in ShortLengths \cup LongLengths }
    /\ console = {}
    /\ prompt = <<>>
    /\ aspectRatio = "1:1"
    /\ isGenerating = FALSE
    /\ currentImage = <<>>
    /\ history = <<>>
    /\ error = ""
    /\ request = <<>>
    /\ reply = <<>>
    /\ generated = 0
    /\ deleted = 0

\* A load effect without the try block.
LoadHistoryUncaught(saved) ==
    IF saved = NoItem THEN [history |-> <<>>, logged |-> {}, threw |-> FALSE]
    ELSE IF IsHistoryText(saved)
         THEN [history |-> ParseHistory(saved), logged |-> {}, threw |-> FALSE]
         ELSE [history |-> <<>>, logged |-> {}, threw |-> TRUE]

\* The load effect: the stored text is parsed into the history; a text that
\* does not parse is logged and the history stays as it is, empty.
LoadHistory(saved) ==
    IF saved = NoItem THEN [history |-> <<>>, logged |-> {}, threw |-> FALSE]
    ELSE IF IsHistoryText(saved)
         THEN [history |-> ParseHistory(saved), logged |-> {}, threw |-> FALSE]
         ELSE [history |-> <<>>, logged |-> {"Failed to parse history"}, threw |-> FALSE]

\* The effects of the first render, and the save effect of the render that
\* the loaded history causes.
Mount ==
    /\ phase = "boot"
    /\ LET l == LoadHistory(storage)
       IN  /\ phase' = IF l.threw THEN "crashed" ELSE "running"
           /\ history' = l.history
           /\ console' = console \cup l.logged
           /\ storage' = IF l.threw THEN storage ELSE StringifyHistory(l.history)
    /\ UNCHANGED <<prompt, aspectRatio, isGenerating, currentImage, error, request,
                   reply, generated, deleted>>
    /\ UNCHANGED <<exportVars, authVars>>

\* The page is loaded again: the state of the component is gone, local
\* storage is not.
Reload ==
    /\ phase = "running"
    /\ phase' = "boot"
    /\ console' = {}
    /\ prompt' = <<>>
    /\ aspectRatio' = "1:1"
    /\ isGenerating' = FALSE
    /\ currentImage' = <<>>
    /\ history' = <<>>
    /\ error' = ""
    /\ request' = <<>>
    /\ reply' = <<>>
    /\ UNCHANGED <<storage, generated, deleted>>
    /\ UNCHANGED <<exportVars, authVars>>

SetPrompt(p) ==
    /\ phase = "running"
    /\ prompt' = p
    /\ UNCHANGED <<phase, storage, console, aspectRatio, isGenerating, currentImage,
                   history, error, request, reply, generated, deleted>>
    /\ UNCHANGED <<exportVars, authVars>>

SetAspectRatio(r) ==
    /\ phase = "running"
    /\ aspectRatio' = r
    /\ UNCHANGED <<phase, storage, console, prompt, isGenerating, currentImage,
                   history, error, request, reply, generated, deleted>>
    /\ UNCHANGED <<exportVars, authVars>>

\* handleGenerate up to the fetch; the button is disabled while generating
\* or while the prompt is blank.
GenerateStart ==
    /\ phase = "running"
    /\ ~isGenerating
    /\ Trim(prompt) # <<>>
    /\ generated < MaxGen
    /\ isGenerating' = TRUE
    /\ error' = ""
    /\ request' = <<[prompt |-> prompt, aspectRatio |-> aspectRatio]>>
    /\ reply' = <<>>
    /\ UNCHANGED <<phase, storage, console, prompt, aspectRatio, currentImage,
                   history, generated, deleted>>
    /\ UNCHANGED <<exportVars, authVars>>

\* The generation endpoint answers.
UpstreamReplies(a) ==
    /\ phase = "running"
    /\ request # <<>>
    /\ reply = <<>>
    /\ reply' = <<a>>
    /\ UNCHANGED <<phase, storage, console, prompt, aspectRatio, isGenerating,
                   currentImage, history, error, request, generated, deleted>>
    /\ UNCHANGED <<exportVars, authVars>>

Take(s, n) == SubSeq(s, 1, IF Len(s) < n THEN Len(s) ELSE n)

\* A list that grows without a cap.
PrependUncapped(img, prev) == <<img>> \o prev

\* [newImage, ...prev].slice(0, 20)
Prepend(img, prev) == Take(<<img>> \o prev, HistoryCap)

\* The id of a new image: Math.random().toString(36).substring(7)
NewId(rnd) == Substring7(rnd)

NewImage(rnd, a, req) ==
    [id |-> NewId(rnd), url |-> a.url, prompt |-> req.prompt,
     aspectRatio |-> req.aspectRatio, timestamp |-> a.timestamp]

\* handleGenerate after the fetch, status 200: the new image is displayed
\* and put in front of the history, which is saved.
GenerateDone(rnd) ==
    /\ phase = "running"
    /\ reply # <<>>
    /\ reply[1].status = 200
    /\ LET img == NewImage(rnd, reply[1], request[1])
       IN  /\ currentImage' = <<img>>
           /\ history' = Prepend(img, history)
    /\ storage' = StringifyHistory(history')
    /\ isGenerating' = FALSE
    /\ request' = <<>>
    /\ reply' = <<>>
    /\ generated' = generated + 1
    /\ UNCHANGED <<phase, console, prompt, aspectRatio, error, deleted>>
    /\ UNCHANGED <<exportVars, authVars>>

\* handleGenerate after the fetch, another status: the error is shown.
GenerateFailed ==
    /\ phase = "running"
    /\ reply # <<>>
    /\ reply[1].status # 200
    /\ error' = IF reply[1].error = "" THEN GenerateFallback ELSE reply[1].error
    /\ isGenerating' = FALSE
    /\ request' = <<>>
    /\ reply' = <<>>
    /\ UNCHANGED <<phase, storage, console, prompt, aspectRatio, currentImage,
                   history, generated, deleted>>
    /\ UNCHANGED <<exportVars, authVars>>

\* The click on a history entry: setCurrentImage(img)
Select(k) ==
    /\ phase = "running"
    /\ k \in DOMAIN history
    /\ currentImage' = <<history[k]>>
    /\ UNCHANGED <<phase, storage, console, prompt, aspectRatio, isGenerating,
                   history, error, request, reply, generated, deleted>>
    /\ UNCHANGED <<exportVars, authVars>>

\* A filter that drops the first match only.
RECURSIVE WithoutFirst(_, _)
WithoutFirst(h, id) ==
    IF h = <<>> THEN <<>>
    ELSE IF Head(h).id = id THEN Tail(h) ELSE <<Head(h)>> \o WithoutFirst(Tail(h), id)

\* prev.filter(img => img.id !== id)
Without(h, id) == SelectSeq(h, LAMBDA img : img.id # id)

\* A deletion that leaves the displayed image alone.
DisplayedKept(cur, id) == cur

\* if (currentImage?.id === id) setCurrentImage(null)
DisplayedAfterDelete(cur, id) == IF cur # <<>> /\ cur[1].id = id THEN <<>> ELSE cur

\* deleteFromHistory(id), from the delete button of a history entry; the
\* history is saved.
DeleteFromHistory(id) ==
    /\ phase = "running"
    /\ deleted < MaxDel
    /\ \E k \in DOMAIN history : history[k].id = id
    /\ history' = Without(history, id)
    /\ currentImage' = DisplayedAfterDelete(currentImage, id)
    /\ storage' = StringifyHistory(history')
    /\ deleted' = deleted + 1
    /\ UNCHANGED <<phase, console, prompt, aspectRatio, isGenerating, error,
                   request, reply, generated>>
    /\ UNCHANGED <<exportVars, authVars>>

\* clearHistory, confirmed; the history is saved.
ClearHistory ==
    /\ phase = "running"
    /\ history' = <<>>
    /\ currentImage' = <<>>
    /\ storage' = StringifyHistory(history')
    /\ UNCHANGED <<phase, console, prompt, aspectRatio, isGenerating, error,
                   request, reply, generated, deleted>>
    /\ UNCHANGED <<exportVars, authVars>>

\* The history entries the user clicks on: any of them, or only the first
\* two and the last.
Clickable(h, any) == {k \in DOMAIN h : any \/ k <= 2 \/ k = Len(h)}

\* The App with what the user enters and clicks on, what Math.random gives
\* and what the generation endpoint answers drawn from the given sets.
ClientNext(prompts, ratios, randoms, replies, any) ==
    \/ Mount
    \/ Reload
    \/ \E p \in prompts : SetPrompt(p)
    \/ \E r \in ratios : SetAspectRatio(r)
    \/ GenerateStart
    \/ \E a \in replies : UpstreamReplies(a)
    \/ \E rnd \in randoms : GenerateDone(rnd)
    \/ GenerateFailed
    \/ \E k \in Clickable(history, any) : Select(k)
    \/ \E id \in {history[k].id : k \in Clickable(history, any)} : DeleteFromHistory(id)
    \/ ClearHistory

----------------------------------------------------------------------------
(* The specifications: the export handler, the session cookie, the App     *)

\* Each specification runs one part; the others stay as constructed.
ServerInit == ExportInit /\ AuthInit /\ ClientInit /\ storage = NoItem

\* The App starting from no stored history, a malformed one or a short one,
\* with every prompt, aspect ratio, random string and reply.
ClientSpecInit ==
    /\ ExportInit /\ AuthInit /\ ClientInit
    /\ storage \in {NoItem, MalformedHistory}
                     \cup { StringifyHistory(StoredHistory(n)) : n \in ShortLengths }

ClientSpec ==
    ClientSpecInit
        /\ [][ClientNext(Prompts, AspectRatios, RandomStrings, Replies, TRUE)]_vars

\* The App starting from a stored history at the cap or one below it, with
\* one prompt, two aspect ratios, two random strings and two replies; the
\* user clicks on the first two entries and the last.
HistorySpecInit ==
    /\ ExportInit /\ AuthInit /\ ClientInit
    /\ storage \in { StringifyHistory(StoredHistory(n)) : n \in LongLengths }

HistorySpec ==
    HistorySpecInit
        /\ [][ClientNext({<<"p">>}, {"1:1", "16:9"},
                         {r \in RandomStrings : Len(r) > 3},
                         {a \in Replies : a.timestamp = 1 \/ a.error # ""},
                         FALSE)]_vars

\* The export handler with every request; a failing call carries a message.
Spec == ServerInit /\ [][ExportNext(Requests, StepMessages \ {""})]_vars

\* The export handler with well-formed requests; a failing call carries a
\* message or none.
FailureSpec ==
    ServerInit
        /\ [][ExportNext({q \in Requests : HasTokens(q.cookies) /\ JSONParses(q.cookies[CookieName])
                                              /\ q.body = Body("datauri")},
                         StepMessages)]_vars

AuthSpec == ServerInit /\ [][AuthNext]_vars

----------------------------------------------------------------------------
(* Properties of the App                                                   *)

Min(a, b) == IF a < b THEN a ELSE b

\* The entries of h whose id is not the given one, in their order.
RECURSIVE Others(_, _)
Others(h, id) ==
    IF h = <<>> THEN <<>>
    ELSE (IF Head(h).id = id THEN <<>> ELSE <<Head(h)>>) \o Others(Tail(h), id)

\* A step that completes a generation puts the displayed image in front,
\* moves the earlier entries back by one and keeps at most HistoryCap.
GenerationPrepends ==
    generated' = generated + 1 =>
        /\ Len(history') = Min(Len(history) + 1, HistoryCap)
        /\ currentImage' # <<>>
        /\ history'[1] = currentImage'[1]
        /\ \A k \in 2..Len(history') : history'[k] = history[k - 1]

\* A step that deletes leaves the other entries in their order.
DeletionKeepsOrder ==
    deleted' = deleted + 1 =>
        \E k \in DOMAIN history : history' = Others(history, history[k].id)

\* C6: the history never holds more than 20 entries; a successful generation
\* puts the new image at index 0 and keeps the order of the entries before
\* it, dropping the last one when there were 20; deletions keep the order,
\* so the list is most-recent-first.
C6_HistoryCappedNewestFirst ==
    /\ [](Len(history) <= HistoryCap)
    /\ [][GenerationPrepends /\ DeletionKeepsOrder]_vars

\* A generation on a full history: the new image is first, the oldest stored
\* entry is gone and the one before it is now last.
C6_Witness ==
    /\ generated = 1
    /\ deleted = 0
    /\ Len(history) = HistoryCap
    /\ currentImage # <<>> /\ history[1] = currentImage[1]
    /\ history[2] = StoredEntry(1)
    /\ history[HistoryCap] = StoredEntry(HistoryCap - 1)

\* C8: deleteFromHistory(id) removes every entry with that id and keeps the
\* others in their order; the displayed image becomes none exactly when its
\* id is the given one, and is otherwise unchanged.
C8_DeleteFromHistory ==
    [][deleted' = deleted + 1 =>
          \E k \in DOMAIN history :
              LET id == history[k].id
              IN  /\ \A j \in DOMAIN history' : history'[j].id # id
                  /\ history' = Others(history, id)
                  /\ IF currentImage # <<>> /\ currentImage[1].id = id
                     THEN currentImage' = <<>>
                     ELSE currentImage' = currentImage]_vars

\* The stored entry was deleted while the generated one, with another id,
\* was displayed: it still is, and it alone is left.
C8_Witness ==
    /\ deleted = 1
    /\ generated = 1
    /\ Len(history) = 1
    /\ currentImage = <<history[1]>>
    /\ history[1].id # StoredEntry(1).id

\* C9: when the stored history is not parseable, the load leaves the history
\* empty and the error unset, no exception escapes, and the empty list is
\* what gets stored.
C9_MalformedHistoryDropped ==
    [][(phase = "boot" /\ storage # NoItem /\ ~IsHistoryText(storage)) =>
          /\ phase' = "running"
          /\ history' = <<>>
          /\ error' = ""
          /\ currentImage' = <<>>
          /\ storage' = <<"[", "]">>]_vars

\* The App runs after a load that logged the parse failure.
C9_Witness ==
    /\ phase = "running"
    /\ "Failed to parse history" \in console
    /\ history = <<>>
    /\ error = ""
    /\ storage = <<"[", "]">>

\* C10: a generation answered 200 with {url, prompt, timestamp}, for a
\* non-blank prompt and any aspect ratio, yields an image with a non-empty
\* id and the url and timestamp of the answer, which becomes the displayed
\* image and the first entry of the history.
C10_GeneratedImage ==
    [][generated' = generated + 1 =>
          /\ Trim(request[1].prompt) # <<>>
          /\ request[1].aspectRatio \in AspectRatios
          /\ currentImage' # <<>>
          /\ currentImage'[1].id # <<>>
          /\ currentImage'[1].url = reply[1].url
          /\ currentImage'[1].timestamp = reply[1].timestamp
          /\ history'[1] = currentImage'[1]]_vars

\* C13: whatever the sequence of load, generation (also one that completes
\* after entries were selected, deleted or cleared while it was in flight),
\* selection, deleteFromHistory and clearHistory, the displayed image is
\* none or has the id of an entry of the history.
C13_DisplayedInHistory ==
    currentImage # <<>> => \E k \in DOMAIN history : history[k].id = currentImage[1].id

\* The stored entry was deleted before the generation completed with an
\* image of the same id: that image is displayed and is the one entry left.
C13_Witness ==
    /\ phase = "running"
    /\ deleted = 1
    /\ generated = 1
    /\ ~isGenerating
    /\ currentImage # <<>>
    /\ currentImage[1].id = StoredEntry(1).id
    /\ history = currentImage

====
